---- MODULE Spec2Model ----
(***************************************************************************)
(* Model of the hierarchy synchronisation and cascading-membership code of *)
(* web/backend/ldap (models.py, utils.py).                                 *)
(*                                                                         *)
(* The directory (the edap gateway) is the only shared mutable state.  It  *)
(* is held in the record `dir`.  Every handler of models.py is a sequence  *)
(* of gateway calls; a call that the directory rejects raises, and the     *)
(* handlers of models.py catch nothing except the ObjectDoesNotExist of    *)
(* the first get_team in get_everybody_team, so a rejected call ends the   *)
(* handler at that point with the effects of the earlier calls kept.       *)
(***************************************************************************)
EXTENDS Naturals, Sequences, FiniteSets, TLC

VARIABLES
    dir,       \* the directory: users, franchises, divisions, teams, memberships
    last,      \* the last handler run: its name, arguments, outcome and gateway calls
    derivOk,   \* history: every franchise/division handler so far returned normally
    memberOk,  \* history: every user handler so far returned normally
    merged,    \* the last merge_divisions run: its two inputs and its result
    nxc,       \* the groupware: its groups, group folders, grants, and the last request
    procs      \* the handlers that run concurrently: each one's position and outcome

vars == <<dir, last, derivOk, memberOk, merged, nxc, procs>>

----------------------------------------------------------------------------
(* Bounds of the model *)

MaxFranchises == 2
MaxDivisions == 2
MaxUsers == 1
MaxGroups == 2
MaxLdap == 2
MaxFolderCalls == 3
MaxCallers == 3

FranchisePool == <<"east", "west", "north", "south">>
DivisionPool == <<"ops", "sales", "legal", "hr">>
UserPool == <<"alice", "bob", "carol">>

FranchiseNames == {FranchisePool[i] : i \in 1..MaxFranchises}
DivisionNames == {DivisionPool[i] : i \in 1..MaxDivisions}
Uids == {UserPool[i] : i \in 1..MaxUsers}

----------------------------------------------------------------------------
(* Names *)

EVERYBODY_MACHINE_NAME == "everybody"

\* edap.make_team_machine_name: the franchise-then-division combination of
\* two machine identifiers, written as in the scenario of the specification
\* (east, ops -> east-ops).  No identifier of the pools above holds a "-", so
\* on them distinct pairs get distinct names.
make_team_machine_name(franchise, division) == franchise \o "-" \o division

\* a team name no handler ever creates
GHOST_TEAM == "ghost"

\* all orders in which a listing call may return the members of S
Perms(S) ==
    LET n == Cardinality(S)
    IN  {s \in [1..n -> S] : \A i, j \in 1..n : s[i] = s[j] => i = j}

----------------------------------------------------------------------------
(* The directory gateway (edap).  Each call maps a directory to            *)
(* [err, dir]: err = "ok", or the kind of the exception the call raises,   *)
(* in which case the directory is unchanged.                               *)

Accept(d) == [err |-> "ok", dir |-> d]
Reject(kind, d) == [err |-> kind, dir |-> d]

add_user(d, uid) ==
    IF uid \in d.users THEN Reject("AlreadyExists", d)
    ELSE Accept([d EXCEPT !.users = @ \cup {uid}])

create_franchise(d, f) ==
    IF f \in d.franchises THEN Reject("AlreadyExists", d)
    ELSE Accept([d EXCEPT !.franchises = @ \cup {f}])

create_division(d, dv) ==
    IF dv \in d.divisions THEN Reject("AlreadyExists", d)
    ELSE Accept([d EXCEPT !.divisions = @ \cup {dv}])

create_team(d, t) ==
    IF t \in d.teams THEN Reject("AlreadyExists", d)
    ELSE Accept([d EXCEPT !.teams = @ \cup {t}])

get_team(d, t) ==
    IF t \in d.teams THEN Accept(d) ELSE Reject("NotFound", d)

make_user_member_of_team(d, uid, t) ==
    IF t \notin d.teams \/ uid \notin d.users THEN Reject("NotFound", d)
    ELSE IF <<uid, t>> \in d.teamMembers THEN Reject("AlreadyExists", d)
    ELSE Accept([d EXCEPT !.teamMembers = @ \cup {<<uid, t>>}])

make_user_member_of_franchise(d, uid, f) ==
    IF f \notin d.franchises \/ uid \notin d.users THEN Reject("NotFound", d)
    ELSE IF <<uid, f>> \in d.franchiseMembers THEN Reject("AlreadyExists", d)
    ELSE Accept([d EXCEPT !.franchiseMembers = @ \cup {<<uid, f>>}])

make_uid_member_of_division(d, uid, dv) ==
    IF dv \notin d.divisions \/ uid \notin d.users THEN Reject("NotFound", d)
    ELSE IF <<uid, dv>> \in d.divisionMembers THEN Reject("AlreadyExists", d)
    ELSE Accept([d EXCEPT !.divisionMembers = @ \cup {<<uid, dv>>}])

\* edap.get_team_component_units: the (franchise, division) pairs that own team t
get_team_component_units(d, t) ==
    {p \in d.franchises \X d.divisions : make_team_machine_name(p[1], p[2]) = t}

\* One gateway call, given as the tuple <<function name, arguments...>>.
Gateway(d, c) ==
    CASE c[1] = "add_user" -> add_user(d, c[2])
      [] c[1] = "create_franchise" -> create_franchise(d, c[2])
      [] c[1] = "create_division" -> create_division(d, c[2])
      [] c[1] = "create_team" -> create_team(d, c[2])
      [] c[1] = "get_team" -> get_team(d, c[2])
      [] c[1] = "make_uid_member_of" -> make_user_member_of_team(d, c[2], c[3])
      [] c[1] = "make_user_member_of_team" -> make_user_member_of_team(d, c[2], c[3])
      [] c[1] = "make_user_member_of_franchise" -> make_user_member_of_franchise(d, c[2], c[3])
      [] c[1] = "make_uid_member_of_division" -> make_uid_member_of_division(d, c[2], c[3])
      [] OTHER -> Accept(d)   \* read-only calls: get_divisions, get_franchises, label_franchise, get_team_component_units

----------------------------------------------------------------------------
(* Running a handler: st = [dir, calls, err].  A statement after a raised  *)
(* exception is not executed.                                              *)

Start(d) == [dir |-> d, calls |-> <<>>, err |-> "ok"]

Call(st, c) ==
    IF st.err # "ok" THEN st
    ELSE LET r == Gateway(st.dir, c)
         IN  [dir |-> r.dir, calls |-> Append(st.calls, c), err |-> r.err]

Raise(st, kind) == IF st.err # "ok" THEN st ELSE [st EXCEPT !.err = kind]

----------------------------------------------------------------------------
(* models.py: LdapTeam *)

\* LdapTeam.get_everybody_team: get, or create and get again
get_everybody_team(st) ==
    LET got == Call(st, <<"get_team", EVERYBODY_MACHINE_NAME>>)
    IN  IF st.err = "ok" /\ got.err = "NotFound"
        THEN Call(Call([got EXCEPT !.err = "ok"],
                       <<"create_team", EVERYBODY_MACHINE_NAME>>),
                  <<"get_team", EVERYBODY_MACHINE_NAME>>)
        ELSE got

----------------------------------------------------------------------------
(* models.py: LdapUser *)

\* the loop `for group in self.groups: edap.make_uid_member_of(self.uid, group)`
RECURSIVE MemberOfEach(_, _, _)
MemberOfEach(st, uid, groups) ==
    IF groups = <<>> THEN st
    ELSE MemberOfEach(Call(st, <<"make_uid_member_of", uid, Head(groups)>>), uid, Tail(groups))

\* LdapUser.create with the "everybody" membership added before the initial
\* groups
LdapUser_create_everybody_first(d, uid, given, groups) ==
    LET added == Call(Start(d), <<"add_user", uid>>)
        everybody == get_everybody_team(added)
        first == Call(everybody, <<"make_user_member_of_team", uid, EVERYBODY_MACHINE_NAME>>)
    IN  IF given THEN MemberOfEach(first, uid, groups) ELSE Raise(first, "TypeError")

\* LdapUser.create.  given = FALSE is groups=None, the default of User.__init__:
\* iterating None raises TypeError.
LdapUser_create(d, uid, given, groups) ==
    LET added == Call(Start(d), <<"add_user", uid>>)
        joined == IF given THEN MemberOfEach(added, uid, groups)
                  ELSE Raise(added, "TypeError")
        everybody == get_everybody_team(joined)
    IN  Call(everybody, <<"make_user_member_of_team", uid, EVERYBODY_MACHINE_NAME>>)

\* the results get_team_component_units may give for team t: an owning pair,
\* or <<>> (none) when the team has no owning pair
ComponentUnits(d, t) ==
    IF get_team_component_units(d, t) = {} THEN {<<>>}
    ELSE get_team_component_units(d, t)

\* add_to_team without its last statement, the division membership call
add_to_team_no_division(d, uid, t, units) ==
    LET team == Call(Start(d), <<"make_user_member_of_team", uid, t>>)
        looked == Call(team, <<"get_team_component_units", t>>)
    IN  IF units = <<>> THEN Raise(looked, "TypeError")
        ELSE Call(looked, <<"make_user_member_of_franchise", uid, units[1]>>)

\* add_to_team with the lookup of the owning pair moved before the team
\* membership call
add_to_team_lookup_first(d, uid, t, units) ==
    LET looked == Call(Start(d), <<"get_team_component_units", t>>)
    IN  IF units = <<>> THEN Raise(looked, "TypeError")
        ELSE Call(Call(Call(looked, <<"make_user_member_of_team", uid, t>>),
                       <<"make_user_member_of_franchise", uid, units[1]>>),
                  <<"make_uid_member_of_division", uid, units[2]>>)

\* LdapUser.add_to_team, the lookup answering `units`.  Unpacking none into
\* (franchise, division) raises TypeError.
add_to_team(d, uid, t, units) ==
    LET team == Call(Start(d), <<"make_user_member_of_team", uid, t>>)
        looked == Call(team, <<"get_team_component_units", t>>)
    IN  IF units = <<>> THEN Raise(looked, "TypeError")
        ELSE Call(Call(looked, <<"make_user_member_of_franchise", uid, units[1]>>),
                  <<"make_uid_member_of_division", uid, units[2]>>)

----------------------------------------------------------------------------
(* models.py: LdapFranchise, Division *)

\* the loop of LdapFranchise.create_teams over the listed divisions
RECURSIVE FranchiseTeams(_, _, _)
FranchiseTeams(st, f, divisions) ==
    IF divisions = <<>> THEN st
    ELSE FranchiseTeams(
             Call(st, <<"create_team", make_team_machine_name(f, Head(divisions))>>),
             f, Tail(divisions))

\* LdapFranchise.create_teams, get_divisions answering `divisions`
LdapFranchise_create_teams(st, f, divisions) ==
    FranchiseTeams(Call(st, <<"get_divisions">>), f, divisions)

\* LdapFranchise.create going on to create_teams whatever create_franchise
\* answered
LdapFranchise_create_unchecked(d, f, divisions) ==
    LET made == Call(Start(d), <<"create_franchise", f>>)
    IN  LdapFranchise_create_teams(
            Call([made EXCEPT !.err = "ok"], <<"label_franchise", f>>), f, divisions)

\* LdapFranchise.create
LdapFranchise_create(d, f, divisions) ==
    LdapFranchise_create_teams(
        Call(Call(Start(d), <<"create_franchise", f>>), <<"label_franchise", f>>),
        f, divisions)

\* the loop of Division.create_teams with the two arguments of
\* make_team_machine_name exchanged
RECURSIVE DivisionTeams_swapped(_, _, _)
DivisionTeams_swapped(st, dv, franchises) ==
    IF franchises = <<>> THEN st
    ELSE DivisionTeams_swapped(
             Call(st, <<"create_team", make_team_machine_name(dv, Head(franchises))>>),
             dv, Tail(franchises))

\* the loop of Division.create_teams over the listed franchises
RECURSIVE DivisionTeams(_, _, _)
DivisionTeams(st, dv, franchises) ==
    IF franchises = <<>> THEN st
    ELSE DivisionTeams(
             Call(st, <<"create_team", make_team_machine_name(Head(franchises), dv)>>),
             dv, Tail(franchises))

\* Division.create_teams, get_franchises answering `franchises`
Division_create_teams(st, dv, franchises) ==
    DivisionTeams(Call(st, <<"get_franchises">>), dv, franchises)

\* Division.create
Division_create(d, dv, franchises) ==
    Division_create_teams(Call(Start(d), <<"create_division", dv>>), dv, franchises)

----------------------------------------------------------------------------
(* utils.py: merge_divisions *)

\* Python values of the two inputs and of the result
PyNone == [t |-> "None"]
PyStr(s) == [t |-> "str", v |-> s]
PyBytes(s) == [t |-> "bytes", v |-> s]

\* bytes.decode('utf-8'): the str of the characters the bytes encode
decode(b) == PyStr(b.v)

\* ldap_division.get('description'): the attribute's value list, or None
GetDescription(e) ==
    IF "description" \in DOMAIN e THEN [t |-> "list", v |-> e.description] ELSE PyNone

\* truth value of what .get('description') gave: None and [] are false
Truthy(x) == x.t = "list" /\ x.v # <<>>

div_machine_name(e) == decode(e.cn[1]).v

div_display_name(e) ==
    IF Truthy(GetDescription(e)) THEN decode(e.description[1]) ELSE PyNone

\* the first loop: one entry per division of the config
FromConfig(config_divisions) ==
    [machine_name \in DOMAIN config_divisions |->
        [config_display_name |-> PyStr(config_divisions[machine_name]),
         exists_in_config |-> TRUE,
         exists_in_ldap |-> FALSE]]

\* the second loop with the update of a config entry leaving exists_in_ldap
\* as the first loop set it
RECURSIVE MergeLdap_flag_kept(_, _)
MergeLdap_flag_kept(divisions, ldap_divisions) ==
    IF ldap_divisions = <<>> THEN divisions
    ELSE LET e == Head(ldap_divisions)
             name == div_machine_name(e)
         IN  MergeLdap_flag_kept(
                 IF name \in DOMAIN divisions
                 THEN [divisions EXCEPT ![name] =
                          [ldap_display_name |-> div_display_name(e)] @@ @]
                 ELSE (name :> [ldap_display_name |-> div_display_name(e),
                                exists_in_ldap |-> TRUE,
                                exists_in_config |-> FALSE]) @@ divisions,
                 Tail(ldap_divisions))

\* the second loop, over the divisions the directory listed
RECURSIVE MergeLdap(_, _)
MergeLdap(divisions, ldap_divisions) ==
    IF ldap_divisions = <<>> THEN divisions
    ELSE LET e == Head(ldap_divisions)
             name == div_machine_name(e)
         IN  MergeLdap(
                 IF name \in DOMAIN divisions
                 THEN [divisions EXCEPT ![name] =
                          [exists_in_ldap |-> TRUE,
                           ldap_display_name |-> div_display_name(e)] @@ @]
                 ELSE (name :> [ldap_display_name |-> div_display_name(e),
                                exists_in_ldap |-> TRUE,
                                exists_in_config |-> FALSE]) @@ divisions,
                 Tail(ldap_divisions))

merge_divisions(config_divisions, ldap_divisions) ==
    MergeLdap(FromConfig(config_divisions), ldap_divisions)

----------------------------------------------------------------------------
(* utils.py: check_consistency *)

INTERNATIONAL_MACHINE_NAME == "international"

EverybodyMissing == "Edap Everybody team is missing"
InternationalMissing == "Edap International team is missing"

\* one `try: e.get_team(t) except ObjectDoesNotExist: logger.warning(w)`
\* st carries the warnings logged so far
TryGetTeam(st, t, w) ==
    LET got == Call([dir |-> st.dir, calls |-> st.calls, err |-> st.err],
                    <<"get_team", t>>)
    IN  IF st.err = "ok" /\ got.err = "NotFound"
        THEN [dir |-> got.dir, calls |-> got.calls, err |-> "ok",
              warnings |-> Append(st.warnings, w)]
        ELSE [dir |-> got.dir, calls |-> got.calls, err |-> got.err,
              warnings |-> st.warnings]

\* check_consistency with both lookups in one try block
check_consistency_one_try(d) ==
    LET st == [dir |-> d, calls |-> <<>>, err |-> "ok", warnings |-> <<>>]
        first == TryGetTeam(st, EVERYBODY_MACHINE_NAME, EverybodyMissing)
    IN  IF first.warnings # <<>> THEN first
        ELSE TryGetTeam(first, INTERNATIONAL_MACHINE_NAME, InternationalMissing)

\* check_consistency creating a team it finds missing
check_consistency_repairing(d) ==
    LET st == [dir |-> d, calls |-> <<>>, err |-> "ok", warnings |-> <<>>]
        first == TryGetTeam(st, EVERYBODY_MACHINE_NAME, EverybodyMissing)
        fixed == IF first.warnings # <<>>
                 THEN [dir |-> create_team(first.dir, EVERYBODY_MACHINE_NAME).dir,
                       calls |-> Append(first.calls, <<"create_team", EVERYBODY_MACHINE_NAME>>),
                       err |-> first.err, warnings |-> first.warnings]
                 ELSE first
    IN  TryGetTeam(fixed, INTERNATIONAL_MACHINE_NAME, InternationalMissing)

check_consistency(d) ==
    LET st == [dir |-> d, calls |-> <<>>, err |-> "ok", warnings |-> <<>>]
    IN  TryGetTeam(TryGetTeam(st, EVERYBODY_MACHINE_NAME, EverybodyMissing),
                   INTERNATIONAL_MACHINE_NAME, InternationalMissing)

----------------------------------------------------------------------------
(* The groupware gateway (nextcloud).  A call answers with a response that *)
(* has is_ok and data; it does not raise.  Whether the groupware accepts a *)
(* call is an input `ok`.  The id of a group folder is its path.  A        *)
(* response to a rejected creation carries no 'id'.                        *)

Response(ok, hasId, id, x) == [is_ok |-> ok, hasId |-> hasId, id |-> id, nxc |-> x]

create_group_folder(x, path, ok) ==
    IF ok THEN Response(TRUE, TRUE, path, [x EXCEPT !.folders = @ \cup {path}])
    ELSE Response(FALSE, FALSE, "", x)

grant_access_to_group_folder(x, id, group, ok) ==
    IF ok THEN Response(TRUE, FALSE, "", [x EXCEPT !.grants = @ \cup {<<id, group>>}])
    ELSE Response(FALSE, FALSE, "", x)

set_permissions_to_group_folder(x, id, group, permission, ok) ==
    IF ok THEN Response(TRUE, FALSE, "", [x EXCEPT !.permissions = @ \cup {<<id, group, permission>>}])
    ELSE Response(FALSE, FALSE, "", x)

\* backend.nextcloud.utils.get_group_folder: the folder of that name, if any
get_group_folder(x, name) == name \in x.folders

Answer(ok) == IF ok THEN "ok" ELSE "rejected"

----------------------------------------------------------------------------
(* models.py: Franchise.create_folder, Franchise.create_main_folder        *)
(* A run is fs = [nxc, calls, err, result]; oks[i] says whether the        *)
(* groupware accepts the i-th call the run may issue.                      *)

GROUP_FOLDER == "Franchises"
READ == "1"

SubFolder(folder_name) == GROUP_FOLDER \o "/" \o folder_name

FolderStart(x) == [nxc |-> x, calls |-> <<>>, err |-> "ok", result |-> FALSE]

\* Franchise.create_main_folder; data['id'] of a rejected creation raises
create_main_folder(fs, oks) ==
    LET made == create_group_folder(fs.nxc, GROUP_FOLDER, oks[1])
        asked == Append(fs.calls, <<"create_group_folder", GROUP_FOLDER, "", Answer(oks[1])>>)
        granted == grant_access_to_group_folder(made.nxc, made.id, EVERYBODY_MACHINE_NAME, oks[2])
        set == set_permissions_to_group_folder(granted.nxc, made.id, EVERYBODY_MACHINE_NAME,
                                               READ, oks[3])
    IN  IF ~made.hasId
        THEN [nxc |-> made.nxc, calls |-> asked, err |-> "KeyError", result |-> FALSE]
        ELSE [nxc |-> set.nxc,
              calls |-> asked \o
                  << <<"grant_access_to_group_folder", made.id, EVERYBODY_MACHINE_NAME, Answer(oks[2])>>,
                     <<"set_permissions_to_group_folder", made.id, EVERYBODY_MACHINE_NAME, Answer(oks[3])>> >>,
              err |-> "ok", result |-> FALSE]

\* the statements of create_folder after the main folder is there
create_sub_folder(fs, folder_name, oks) ==
    LET made == create_group_folder(fs.nxc, SubFolder(folder_name), oks[4])
        asked == Append(fs.calls,
                        <<"create_group_folder", SubFolder(folder_name), "", Answer(oks[4])>>)
        own == grant_access_to_group_folder(made.nxc, made.id, folder_name, oks[5])
        everybody == grant_access_to_group_folder(own.nxc, made.id, EVERYBODY_MACHINE_NAME, oks[6])
    IN  IF fs.err # "ok" THEN fs
        ELSE IF ~made.hasId
        THEN [nxc |-> made.nxc, calls |-> asked, err |-> "KeyError", result |-> FALSE]
        ELSE [nxc |-> everybody.nxc,
              calls |-> asked \o
                  << <<"grant_access_to_group_folder", made.id, folder_name, Answer(oks[5])>>,
                     <<"grant_access_to_group_folder", made.id, EVERYBODY_MACHINE_NAME, Answer(oks[6])>> >>,
              err |-> "ok",
              result |-> made.is_ok /\ own.is_ok /\ everybody.is_ok]

\* create_folder creating the main folder whether or not it is there
create_folder_always_main(x, folder_name, oks) ==
    create_sub_folder(create_main_folder(FolderStart(x), oks), folder_name, oks)

\* Franchise.create_folder
create_folder(x, folder_name, oks) ==
    create_sub_folder(
        IF get_group_folder(x, GROUP_FOLDER) THEN FolderStart(x)
        ELSE create_main_folder(FolderStart(x), oks),
        folder_name, oks)

----------------------------------------------------------------------------
(* nextcloud/api.py: GroupWithFolderViewSet.post                           *)

ALLOWED_GROUP_TYPES == {"divisions", "countries", "other"}

\* str.lower on the group types a request is made with
lower(group_type) ==
    CASE group_type = "Divisions" -> "divisions"
      [] group_type = "OTHER" -> "other"
      [] OTHER -> group_type

\* the groupware's group calls
get_group(x, group_name) == Response(group_name \in x.groups, FALSE, "", x)

add_group(x, group_name, ok) ==
    IF ok /\ group_name \notin x.groups
    THEN Response(TRUE, FALSE, "", [x EXCEPT !.groups = @ \cup {group_name}])
    ELSE Response(FALSE, FALSE, "", x)

delete_group(x, group_name, ok) ==
    IF ok /\ group_name \in x.groups
    THEN Response(TRUE, FALSE, "", [x EXCEPT !.groups = @ \ {group_name}])
    ELSE Response(FALSE, FALSE, "", x)

Responded(x, calls, status) == [nxc |-> x, calls |-> calls, status |-> status]

\* GroupViewSet.post: with a group in the path, make username a subadmin of
\* it; without, create the group named in the body.  The status does not
\* depend on the groupware's answer.  Subadmins are not part of the
\* groupware state kept here.
GroupViewSet_post(x, path_group, username, group_name, ok) ==
    LET got == get_group(x, path_group)
        asked == << <<"get_group", path_group, "", Answer(got.is_ok)>> >>
        added == add_group(x, group_name, ok)
    IN  IF path_group # ""
        THEN IF username = "" THEN Responded(x, <<>>, 400)
             ELSE IF ~got.is_ok THEN Responded(x, asked, 404)
             ELSE Responded(x, Append(asked, <<"create_subadmin", username, path_group, Answer(ok)>>),
                            201)
        ELSE IF group_name = "" THEN Responded(x, <<>>, 400)
        ELSE Responded(added.nxc, << <<"add_group", group_name, "", Answer(added.is_ok)>> >>, 201)

\* GroupViewSet.delete: with a username, remove that subadmin of the group;
\* without, delete the group.
GroupViewSet_delete(x, group_name, username, ok) ==
    LET got == get_group(x, group_name)
        asked == << <<"get_group", group_name, "", Answer(got.is_ok)>> >>
        deleted == delete_group(x, group_name, ok)
    IN  IF username # ""
        THEN IF ~got.is_ok THEN Responded(x, asked, 404)
             ELSE Responded(x, Append(asked, <<"remove_subadmin", username, group_name, Answer(ok)>>),
                            201)
        ELSE Responded(deleted.nxc,
                       << <<"delete_group", group_name, "", Answer(deleted.is_ok)>> >>, 202)

\* post leaving the group in place when the folder creation fails
post_no_delete(x, group_name, group_type, oks) ==
    LET path == group_type \o "/" \o group_name
        got == get_group(x, group_name)
        asked1 == << <<"get_group", group_name, "", Answer(got.is_ok)>> >>
        added == add_group(x, group_name, oks[1])
        asked2 == Append(asked1, <<"add_group", group_name, "", Answer(added.is_ok)>>)
        made == create_group_folder(added.nxc, path, oks[2])
        asked3 == Append(asked2, <<"create_group_folder", path, "", Answer(made.is_ok)>>)
    IN  IF group_name = "" \/ group_type = "" THEN Responded(x, <<>>, 400)
        ELSE IF lower(group_type) \notin ALLOWED_GROUP_TYPES THEN Responded(x, <<>>, 400)
        ELSE IF got.is_ok THEN Responded(x, asked1, 400)
        ELSE IF ~added.is_ok THEN Responded(added.nxc, asked2, 400)
        ELSE IF ~made.is_ok THEN Responded(made.nxc, asked3, 400)
        ELSE Responded(made.nxc, asked3, 201)

\* GroupWithFolderViewSet.post; oks says whether the groupware accepts the
\* group creation, the folder creation and the group deletion
post(x, group_name, group_type, oks) ==
    LET path == group_type \o "/" \o group_name
        got == get_group(x, group_name)
        asked1 == << <<"get_group", group_name, "", Answer(got.is_ok)>> >>
        added == add_group(x, group_name, oks[1])
        asked2 == Append(asked1, <<"add_group", group_name, "", Answer(added.is_ok)>>)
        made == create_group_folder(added.nxc, path, oks[2])
        asked3 == Append(asked2, <<"create_group_folder", path, "", Answer(made.is_ok)>>)
        deleted == delete_group(made.nxc, group_name, oks[3])
        asked4 == Append(asked3, <<"delete_group", group_name, "", Answer(deleted.is_ok)>>)
    IN  IF group_name = "" \/ group_type = "" THEN Responded(x, <<>>, 400)
        ELSE IF lower(group_type) \notin ALLOWED_GROUP_TYPES THEN Responded(x, <<>>, 400)
        ELSE IF got.is_ok THEN Responded(x, asked1, 400)
        ELSE IF ~added.is_ok THEN Responded(added.nxc, asked2, 400)
        ELSE IF ~made.is_ok THEN Responded(deleted.nxc, asked4, 400)
        ELSE Responded(made.nxc, asked3, 201)

----------------------------------------------------------------------------
(* The state machine *)

EmptyDir ==
    [users |-> {}, franchises |-> {}, divisions |-> {}, teams |-> {},
     teamMembers |-> {}, franchiseMembers |-> {}, divisionMembers |-> {}]

Ran(op, a, given, b, st) ==
    [op |-> op, a |-> a, given |-> given, b |-> b, outcome |-> st.err, calls |-> st.calls]

NoMerge == [ran |-> FALSE]

NoProcs == [run |-> "none"]

\* the groupware with no group, no group folder and no request made
EmptyNxc ==
    [groups |-> {}, folders |-> {}, grants |-> {}, permissions |-> {},
     request |-> [op |-> "none"],
     folderCalls |-> 0, mainCalls |-> 0, mainCreated |-> 0, mainBy |-> 0,
     mainGranted |-> 0, mainRejected |-> 0]

\* the parts of the state a specification leaves out stay as they start
Idle == nxc = EmptyNxc /\ procs = NoProcs

Init ==
    /\ dir = EmptyDir
    /\ last = [op |-> "none", a |-> "", given |-> TRUE, b |-> <<>>,
               outcome |-> "ok", calls |-> <<>>]
    /\ derivOk = TRUE
    /\ memberOk = TRUE
    /\ merged = NoMerge
    /\ Idle

\* the team names a caller passes: those of the directory, "everybody", and a
\* name that is in no directory
TeamArgs == dir.teams \cup {EVERYBODY_MACHINE_NAME, GHOST_TEAM}

\* the team names given as initial groups: a derived team of the directory,
\* "everybody", and a name that is in no directory
GroupArgs ==
    (dir.teams \cap {make_team_machine_name(FranchisePool[1], DivisionPool[1])})
    \cup {EVERYBODY_MACHINE_NAME, GHOST_TEAM}

\* the initial-groups arguments of LdapUser.create: lists of up to MaxGroups
\* team names, in any order, repeats included
GroupLists == UNION {[1..n -> GroupArgs] : n \in 0..MaxGroups}

UserCreate ==
    \E uid \in Uids, given \in BOOLEAN, groups \in GroupLists :
        /\ given \/ groups = <<>>
        /\ LET st == LdapUser_create(dir, uid, given, groups)
           IN  /\ dir' = st.dir
               /\ last' = Ran("LdapUser.create", uid, given, groups, st)
               /\ memberOk' = (memberOk /\ st.err = "ok")
        /\ UNCHANGED <<derivOk, merged, nxc, procs>>

AddToTeam ==
    \E uid \in Uids, t \in TeamArgs :
        \E units \in ComponentUnits(dir, t) :
            /\ LET st == add_to_team(dir, uid, t, units)
               IN  /\ dir' = st.dir
                   /\ last' = Ran("LdapUser.add_to_team", uid, TRUE, <<t>>, st)
                   /\ memberOk' = (memberOk /\ st.err = "ok")
            /\ UNCHANGED <<derivOk, merged, nxc, procs>>

FranchiseCreate ==
    \E f \in FranchiseNames, divisions \in Perms(dir.divisions) :
        /\ LET st == LdapFranchise_create(dir, f, divisions)
           IN  /\ dir' = st.dir
               /\ last' = Ran("LdapFranchise.create", f, TRUE, <<>>, st)
               /\ derivOk' = (derivOk /\ st.err = "ok")
        /\ UNCHANGED <<memberOk, merged, nxc, procs>>

\* create_teams run on its own, for a franchise that was created
FranchiseCreateTeams ==
    \E f \in dir.franchises, divisions \in Perms(dir.divisions) :
        /\ LET st == LdapFranchise_create_teams(Start(dir), f, divisions)
           IN  /\ dir' = st.dir
               /\ last' = Ran("LdapFranchise.create_teams", f, TRUE, <<>>, st)
               /\ derivOk' = (derivOk /\ st.err = "ok")
        /\ UNCHANGED <<memberOk, merged, nxc, procs>>

DivisionCreate ==
    \E dv \in DivisionNames, franchises \in Perms(dir.franchises) :
        /\ LET st == Division_create(dir, dv, franchises)
           IN  /\ dir' = st.dir
               /\ last' = Ran("Division.create", dv, TRUE, <<>>, st)
               /\ derivOk' = (derivOk /\ st.err = "ok")
        /\ UNCHANGED <<memberOk, merged, nxc, procs>>

\* create_teams run on its own, for a division that was created
DivisionCreateTeams ==
    \E dv \in dir.divisions, franchises \in Perms(dir.franchises) :
        /\ LET st == Division_create_teams(Start(dir), dv, franchises)
           IN  /\ dir' = st.dir
               /\ last' = Ran("Division.create_teams", dv, TRUE, <<>>, st)
               /\ derivOk' = (derivOk /\ st.err = "ok")
        /\ UNCHANGED <<memberOk, merged, nxc, procs>>

\* LdapTeam.get_everybody_team run on its own
GetEverybodyTeam ==
    /\ LET st == get_everybody_team(Start(dir))
       IN  /\ dir' = st.dir
           /\ last' = Ran("LdapTeam.get_everybody_team", EVERYBODY_MACHINE_NAME, TRUE, <<>>, st)
    /\ UNCHANGED <<derivOk, memberOk, merged, nxc, procs>>

Next ==
    \/ UserCreate
    \/ GetEverybodyTeam
    \/ AddToTeam
    \/ FranchiseCreate
    \/ FranchiseCreateTeams
    \/ DivisionCreate
    \/ DivisionCreateTeams

Spec == Init /\ [][Next]_vars

\* merge_divisions on every config mapping and directory listing of the bounds
MachineNames == {"na", "emea"}
DisplayNames == {"North America", "Europe"}

ConfigMappings == UNION {[ks -> DisplayNames] : ks \in SUBSET MachineNames}

LdapEntries ==
    {[cn |-> <<PyBytes(k)>>] : k \in MachineNames}
    \cup {[cn |-> <<PyBytes(k)>>, description |-> <<>>] : k \in MachineNames}
    \cup {[cn |-> <<PyBytes(k)>>, description |-> <<PyBytes(n)>>] :
             k \in MachineNames, n \in DisplayNames}

LdapListings == UNION {[1..n -> LdapEntries] : n \in 0..MaxLdap}

InitMerge ==
    /\ dir = EmptyDir
    /\ last = [op |-> "none", a |-> "", given |-> TRUE, b |-> <<>>,
               outcome |-> "ok", calls |-> <<>>]
    /\ derivOk = TRUE
    /\ memberOk = TRUE
    /\ \E config \in ConfigMappings, ldap \in LdapListings :
           merged = [ran |-> FALSE, config |-> config, ldap |-> ldap]
    /\ Idle

MergeDivisions ==
    /\ ~merged.ran
    /\ merged' = [ran |-> TRUE, config |-> merged.config, ldap |-> merged.ldap,
                  result |-> merge_divisions(merged.config, merged.ldap)]
    /\ UNCHANGED <<dir, last, derivOk, memberOk, nxc, procs>>

SpecMerge == InitMerge /\ [][MergeDivisions]_vars

\* The reconciler: merge_divisions and check_consistency, on a directory that
\* holds any of the two required teams.
InitReconcile ==
    /\ \E teams \in SUBSET {EVERYBODY_MACHINE_NAME, INTERNATIONAL_MACHINE_NAME} :
           dir = [EmptyDir EXCEPT !.teams = teams]
    /\ last = [op |-> "none", a |-> "", given |-> TRUE, b |-> <<>>,
               outcome |-> "ok", calls |-> <<>>]
    /\ derivOk = TRUE
    /\ memberOk = TRUE
    /\ \E config \in ConfigMappings, ldap \in LdapListings :
           merged = [ran |-> FALSE, config |-> config, ldap |-> ldap]
    /\ Idle

CheckConsistency ==
    /\ LET st == check_consistency(dir)
       IN  /\ dir' = st.dir
           /\ last' = Ran("check_consistency", "", TRUE, st.warnings, st)
    /\ UNCHANGED <<derivOk, memberOk, merged, nxc, procs>>

NextReconcile ==
    \/ MergeDivisions
    \/ CheckConsistency

SpecReconcile == InitReconcile /\ [][NextReconcile]_vars

\* Folder provisioning: create_folder run for the franchises, the groupware
\* accepting or rejecting each call.  The groupware record also keeps, as
\* history, the number of create_folder runs, of create_main_folder runs made
\* on their own, of accepted creations of the main folder, the create_folder
\* run that last created it, the number of "everybody" grants asked for on
\* it, and the number of rejected creations of it.
Count(calls, fn, id, group) ==
    Len(SelectSeq(calls, LAMBDA c : c[1] = fn /\ c[2] = id /\ c[3] = group))

CreateFolder ==
    /\ nxc.folderCalls + nxc.mainCalls < MaxFolderCalls
    /\ \E folder_name \in FranchiseNames, oks \in [1..6 -> BOOLEAN] :
           LET fs == create_folder(nxc, folder_name, oks)
               mainAsked == Count(fs.calls, "create_group_folder", GROUP_FOLDER, "") > 0
           IN  nxc' = [fs.nxc EXCEPT
                   !.request = [op |-> "create_folder", a |-> folder_name,
                                calls |-> fs.calls, outcome |-> fs.err,
                                result |-> fs.result],
                   !.folderCalls = @ + 1,
                   !.mainCreated = IF mainAsked /\ oks[1] THEN @ + 1 ELSE @,
                   !.mainBy = IF mainAsked /\ oks[1] THEN nxc.folderCalls + 1 ELSE @,
                   !.mainGranted = @ + Count(fs.calls, "grant_access_to_group_folder",
                                             GROUP_FOLDER, EVERYBODY_MACHINE_NAME),
                   !.mainRejected = IF mainAsked /\ ~oks[1] THEN @ + 1 ELSE @]
    /\ UNCHANGED <<dir, last, derivOk, memberOk, merged, procs>>

\* Franchise.create_main_folder called on its own
CreateMainFolder ==
    /\ nxc.folderCalls + nxc.mainCalls < MaxFolderCalls
    /\ \E oks \in [1..3 -> BOOLEAN] :
           LET fs == create_main_folder(FolderStart(nxc), oks)
           IN  nxc' = [fs.nxc EXCEPT
                   !.request = [op |-> "create_main_folder", a |-> "",
                                calls |-> fs.calls, outcome |-> fs.err,
                                result |-> fs.result],
                   !.mainCalls = @ + 1,
                   !.mainCreated = IF oks[1] THEN @ + 1 ELSE @,
                   !.mainGranted = @ + Count(fs.calls, "grant_access_to_group_folder",
                                             GROUP_FOLDER, EVERYBODY_MACHINE_NAME),
                   !.mainRejected = IF oks[1] THEN @ ELSE @ + 1]
    /\ UNCHANGED <<dir, last, derivOk, memberOk, merged, procs>>

NextFolder ==
    \/ CreateFolder
    \/ CreateMainFolder

SpecFolder == Init /\ [][NextFolder]_vars

\* Group requests against the groupware: the handlers of api.py that write
\* its groups.
Usernames == {"", "alice"}
GroupNames == {"", "staff", "board"}
GroupTypes == {"", "divisions", "Divisions", "OTHER", "teams"}

Post ==
    /\ \E group_name \in GroupNames, group_type \in GroupTypes, oks \in [1..3 -> BOOLEAN] :
           LET r == post(nxc, group_name, group_type, oks)
           IN  nxc' = [r.nxc EXCEPT
                   !.request = [op |-> "post", a |-> group_name, type |-> group_type,
                                calls |-> r.calls, status |-> r.status,
                                existed |-> group_name \in nxc.groups,
                                hadFolder |-> (group_type \o "/" \o group_name) \in nxc.folders]]
    /\ UNCHANGED <<dir, last, derivOk, memberOk, merged, procs>>

GroupPost ==
    /\ \E path_group \in GroupNames, username \in Usernames, group_name \in GroupNames,
          ok \in BOOLEAN :
           LET r == GroupViewSet_post(nxc, path_group, username, group_name, ok)
           IN  nxc' = [r.nxc EXCEPT
                   !.request = [op |-> "GroupViewSet.post",
                                a |-> IF path_group # "" THEN path_group ELSE group_name,
                                calls |-> r.calls, status |-> r.status]]
    /\ UNCHANGED <<dir, last, derivOk, memberOk, merged, procs>>

\* the group of a delete request comes from the path and is never empty
GroupDelete ==
    /\ \E group_name \in GroupNames \ {""}, username \in Usernames, ok \in BOOLEAN :
           LET r == GroupViewSet_delete(nxc, group_name, username, ok)
           IN  nxc' = [r.nxc EXCEPT
                   !.request = [op |-> "GroupViewSet.delete", a |-> group_name,
                                calls |-> r.calls, status |-> r.status]]
    /\ UNCHANGED <<dir, last, derivOk, memberOk, merged, procs>>

NextGroups ==
    \/ Post
    \/ GroupPost
    \/ GroupDelete

SpecGroups == Init /\ [][NextGroups]_vars

\* The derivation handlers alone, from the empty directory.
NextDerivation ==
    \/ FranchiseCreate
    \/ FranchiseCreateTeams
    \/ DivisionCreate
    \/ DivisionCreateTeams
    \/ GetEverybodyTeam

SpecDerivation == Init /\ [][NextDerivation]_vars

\* The user handlers alone, on the directory that the creation of the first
\* franchise and of every division leaves behind.
DerivedDir ==
    [EmptyDir EXCEPT
        !.franchises = {FranchisePool[1]},
        !.divisions = DivisionNames,
        !.teams = {make_team_machine_name(FranchisePool[1], dv) : dv \in DivisionNames}]

InitMembership ==
    /\ dir = DerivedDir
    /\ last = [op |-> "none", a |-> "", given |-> TRUE, b |-> <<>>,
               outcome |-> "ok", calls |-> <<>>]
    /\ derivOk = TRUE
    /\ memberOk = TRUE
    /\ merged = NoMerge
    /\ Idle

NextMembership ==
    \/ UserCreate
    \/ AddToTeam
    \/ GetEverybodyTeam

SpecMembership == InitMembership /\ [][NextMembership]_vars

----------------------------------------------------------------------------
(* Concurrent invocations.  A handler runs one gateway call per step; the  *)
(* steps of different invocations interleave in any order.                 *)

\* The idle parts of the state of a concurrent specification.
Quiet ==
    /\ last = [op |-> "none", a |-> "", given |-> TRUE, b |-> <<>>,
               outcome |-> "ok", calls |-> <<>>]
    /\ derivOk = TRUE
    /\ memberOk = TRUE
    /\ merged = NoMerge
    /\ nxc = EmptyNxc

Callers == 1..MaxCallers

\* Callers of LdapTeam.get_everybody_team, the team being absent.  pc[p] is
\* the call caller p makes next: the first get_team ("get"), create_team
\* ("create"), the second get_team ("refetch"); or it returned ("returned")
\* or an exception left it ("raised").
InitSingleton ==
    /\ dir \in {EmptyDir, DerivedDir}
    /\ procs = [run |-> "get_everybody_team", pc |-> [p \in Callers |-> "get"],
                err |-> [p \in Callers |-> "ok"]]
    /\ Quiet

\* try: edap.get_team(...); except ObjectDoesNotExist: go on to create
EverybodyGet(p) ==
    /\ procs.pc[p] = "get"
    /\ LET r == get_team(dir, EVERYBODY_MACHINE_NAME)
       IN  procs' = [procs EXCEPT !.pc[p] = IF r.err = "ok" THEN "returned" ELSE "create"]
    /\ UNCHANGED <<dir, last, derivOk, memberOk, merged, nxc>>

\* edap.create_team(...) in the except block: nothing catches what it raises
EverybodyCreate(p) ==
    /\ procs.pc[p] = "create"
    /\ LET r == create_team(dir, EVERYBODY_MACHINE_NAME)
       IN  /\ dir' = r.dir
           /\ procs' = [procs EXCEPT !.pc[p] = IF r.err = "ok" THEN "refetch" ELSE "raised",
                                     !.err[p] = r.err]
    /\ UNCHANGED <<last, derivOk, memberOk, merged, nxc>>

\* the second edap.get_team(...)
EverybodyRefetch(p) ==
    /\ procs.pc[p] = "refetch"
    /\ LET r == get_team(dir, EVERYBODY_MACHINE_NAME)
       IN  procs' = [procs EXCEPT !.pc[p] = IF r.err = "ok" THEN "returned" ELSE "raised",
                                  !.err[p] = r.err]
    /\ UNCHANGED <<dir, last, derivOk, memberOk, merged, nxc>>

NextSingleton ==
    \E p \in Callers : EverybodyGet(p) \/ EverybodyCreate(p) \/ EverybodyRefetch(p)

SpecSingleton == InitSingleton /\ [][NextSingleton]_vars

\* LdapFranchise.create of a new franchise and Division.create of a new
\* division, run concurrently on a directory whose teams are complete.
NewFranchise == FranchisePool[2]
NewDivision == DivisionPool[MaxDivisions + 1]

InitConcurrent ==
    /\ dir = DerivedDir
    /\ procs = [run |-> "create",
                fpc |-> "create_franchise", flist |-> <<>>, ferr |-> "ok",
                dpc |-> "create_division", dlist |-> <<>>, derr |-> "ok"]
    /\ Quiet

\* edap.create_franchise(self.machine_name)
FranchiseCreateStep ==
    /\ procs.run = "create" /\ procs.fpc = "create_franchise"
    /\ LET r == create_franchise(dir, NewFranchise)
       IN  /\ dir' = r.dir
           /\ procs' = [procs EXCEPT !.fpc = IF r.err = "ok" THEN "label_franchise" ELSE "raised",
                                     !.ferr = r.err]
    /\ UNCHANGED <<last, derivOk, memberOk, merged, nxc>>

\* edap.label_franchise(self.machine_name)
FranchiseLabelStep ==
    /\ procs.run = "create" /\ procs.fpc = "label_franchise"
    /\ procs' = [procs EXCEPT !.fpc = "get_divisions"]
    /\ UNCHANGED <<dir, last, derivOk, memberOk, merged, nxc>>

\* divisions = edap.get_divisions(): the divisions there are now, in any order
FranchiseListStep ==
    /\ procs.run = "create" /\ procs.fpc = "get_divisions"
    /\ \E divisions \in Perms(dir.divisions) :
           procs' = [procs EXCEPT !.fpc = "create_team", !.flist = divisions]
    /\ UNCHANGED <<dir, last, derivOk, memberOk, merged, nxc>>

\* one turn of the loop of LdapFranchise.create_teams
FranchiseTeamStep ==
    /\ procs.run = "create" /\ procs.fpc = "create_team"
    /\ IF procs.flist = <<>>
       THEN /\ procs' = [procs EXCEPT !.fpc = "returned"]
            /\ dir' = dir
       ELSE LET r == create_team(dir, make_team_machine_name(NewFranchise, Head(procs.flist)))
            IN  /\ dir' = r.dir
                /\ procs' = [procs EXCEPT !.fpc = IF r.err = "ok" THEN "create_team" ELSE "raised",
                                          !.flist = Tail(@),
                                          !.ferr = r.err]
    /\ UNCHANGED <<last, derivOk, memberOk, merged, nxc>>

\* edap.create_division(self.machine_name, display_name=self.display_name)
DivisionCreateStep ==
    /\ procs.run = "create" /\ procs.dpc = "create_division"
    /\ LET r == create_division(dir, NewDivision)
       IN  /\ dir' = r.dir
           /\ procs' = [procs EXCEPT !.dpc = IF r.err = "ok" THEN "get_franchises" ELSE "raised",
                                     !.derr = r.err]
    /\ UNCHANGED <<last, derivOk, memberOk, merged, nxc>>

\* franchises = edap.get_franchises(): the franchises there are now
DivisionListStep ==
    /\ procs.run = "create" /\ procs.dpc = "get_franchises"
    /\ \E franchises \in Perms(dir.franchises) :
           procs' = [procs EXCEPT !.dpc = "create_team", !.dlist = franchises]
    /\ UNCHANGED <<dir, last, derivOk, memberOk, merged, nxc>>

\* one turn of the loop of Division.create_teams
DivisionTeamStep ==
    /\ procs.run = "create" /\ procs.dpc = "create_team"
    /\ IF procs.dlist = <<>>
       THEN /\ procs' = [procs EXCEPT !.dpc = "returned"]
            /\ dir' = dir
       ELSE LET r == create_team(dir, make_team_machine_name(Head(procs.dlist), NewDivision))
            IN  /\ dir' = r.dir
                /\ procs' = [procs EXCEPT !.dpc = IF r.err = "ok" THEN "create_team" ELSE "raised",
                                          !.dlist = Tail(@),
                                          !.derr = r.err]
    /\ UNCHANGED <<last, derivOk, memberOk, merged, nxc>>

NextConcurrent ==
    \/ FranchiseCreateStep
    \/ FranchiseLabelStep
    \/ FranchiseListStep
    \/ FranchiseTeamStep
    \/ DivisionCreateStep
    \/ DivisionListStep
    \/ DivisionTeamStep

SpecConcurrent == InitConcurrent /\ [][NextConcurrent]_vars

----------------------------------------------------------------------------
(* Reading the record of the last handler run *)

Range(s) == {s[i] : i \in 1..Len(s)}

MembershipFns ==
    {"make_uid_member_of", "make_user_member_of_team",
     "make_user_member_of_franchise", "make_uid_member_of_division"}

\* the membership calls among the gateway calls of the last handler, in order
MembershipCalls == SelectSeq(last.calls, LAMBDA c : c[1] \in MembershipFns)

\* the exception that ended the last handler was raised by the gateway
RejectedByDirectory == last.outcome \in {"NotFound", "AlreadyExists"}

CrossProduct(d) == {make_team_machine_name(f, dv) : f \in d.franchises, dv \in d.divisions}

----------------------------------------------------------------------------
(* C1 *)

\* C1: after any sequence of franchise and division creations that all
\* returned normally, starting from the empty directory, the derived teams
\* are exactly the teams name(F,D) of the existing franchises F and
\* divisions D.
C1_CrossProductComplete ==
    derivOk => dir.teams \ {EVERYBODY_MACHINE_NAME} = CrossProduct(dir)

\* two franchises and two divisions exist, all four teams were derived, and
\* the last creation was that of a division
C1_Witness ==
    /\ derivOk
    /\ last.op = "Division.create"
    /\ last.outcome = "ok"
    /\ Cardinality(dir.franchises) = 2
    /\ Cardinality(dir.divisions) = 2
    /\ Cardinality(dir.teams \ {EVERYBODY_MACHINE_NAME}) = 4

----------------------------------------------------------------------------
(* C3 *)

\* C3: a successful add_to_team(u, name(F,D)) issues exactly three
\* membership calls, team then franchise F then division D, and afterwards u
\* is a member of the team, of F and of D.
C3_CascadeComplete ==
    \A f \in FranchiseNames, dv \in DivisionNames :
        (/\ last.op = "LdapUser.add_to_team"
         /\ last.outcome = "ok"
         /\ last.b = <<make_team_machine_name(f, dv)>>)
        => /\ MembershipCalls =
                << <<"make_user_member_of_team", last.a, make_team_machine_name(f, dv)>>,
                   <<"make_user_member_of_franchise", last.a, f>>,
                   <<"make_uid_member_of_division", last.a, dv>> >>
           /\ <<last.a, make_team_machine_name(f, dv)>> \in dir.teamMembers
           /\ <<last.a, f>> \in dir.franchiseMembers
           /\ <<last.a, dv>> \in dir.divisionMembers

\* add_to_team on a derived team returned normally
C3_Witness ==
    /\ last.op = "LdapUser.add_to_team"
    /\ last.outcome = "ok"
    /\ last.b[1] \in CrossProduct(dir)
    /\ <<last.a, last.b[1]>> \in dir.teamMembers

----------------------------------------------------------------------------
(* C2 *)

\* C2: after any sequence of create and add_to_team calls that all returned
\* normally, a member of team name(F,D) is also a member of franchise F, of
\* division D and of the "everybody" team.
C2_MembershipInvariant ==
    memberOk =>
        \A u \in Uids, f \in FranchiseNames, dv \in DivisionNames :
            <<u, make_team_machine_name(f, dv)>> \in dir.teamMembers
            => /\ <<u, f>> \in dir.franchiseMembers
               /\ <<u, dv>> \in dir.divisionMembers
               /\ <<u, EVERYBODY_MACHINE_NAME>> \in dir.teamMembers

----------------------------------------------------------------------------
(* C4 *)

\* C4: after LdapUser.create, run with any initial groups (a list, the empty
\* list, or none supplied) and with no call rejected by the directory, the
\* call has returned normally, the user exists and is a member of "everybody".
C4_ProvisioningInvariant ==
    (last.op = "LdapUser.create" /\ ~RejectedByDirectory)
    => /\ last.outcome = "ok"
       /\ last.a \in dir.users
       /\ <<last.a, EVERYBODY_MACHINE_NAME>> \in dir.teamMembers

----------------------------------------------------------------------------
(* C5 *)

\* the team-creation requests a create_teams batch owes, by the handler that ran
BatchRequests ==
    IF last.op \in {"LdapFranchise.create", "LdapFranchise.create_teams"}
    THEN {<<"create_team", make_team_machine_name(last.a, dv)>> : dv \in dir.divisions}
    ELSE {<<"create_team", make_team_machine_name(f, last.a)>> : f \in dir.franchises}

\* C5: when the directory rejects one team-creation request of a create_teams
\* batch, the request for every other pair of the batch is still issued.
C5_BatchNeverAborts ==
    (/\ last.op \in {"LdapFranchise.create", "LdapFranchise.create_teams",
                     "Division.create", "Division.create_teams"}
     /\ last.outcome = "AlreadyExists"
     /\ last.calls[Len(last.calls)][1] = "create_team")
    => BatchRequests \subseteq Range(last.calls)

----------------------------------------------------------------------------
(* C6 *)

\* C6: LdapFranchise.create_teams run again for the same franchise, right
\* after a run that returned normally, returns normally and leaves the team
\* set as it was.
C6_DerivationIdempotent ==
    [][(/\ last.op \in {"LdapFranchise.create", "LdapFranchise.create_teams"}
        /\ last.outcome = "ok"
        /\ last'.op = "LdapFranchise.create_teams"
        /\ last'.a = last.a)
       => (last'.outcome = "ok" /\ dir'.teams = dir.teams)]_vars

----------------------------------------------------------------------------
(* C7 *)

\* C7 as stated: add_to_team on a team that is not in the directory fails
\* with NotFound and issues no membership call at all.
C7_NoMembershipCall ==
    (last.op = "LdapUser.add_to_team" /\ last.b[1] \notin dir.teams)
    => (last.outcome = "NotFound" /\ MembershipCalls = <<>>)

\* C7 amended: add_to_team on a team that is not in the directory fails with
\* NotFound; the only gateway call it issues is the team membership call,
\* which the directory rejects, and the directory is left unchanged.
C7_MissingTeamRejected ==
    [][(last'.op = "LdapUser.add_to_team" /\ last'.b[1] \notin dir.teams)
       => /\ last'.outcome = "NotFound"
          /\ last'.calls = << <<"make_user_member_of_team", last'.a, last'.b[1]>> >>
          /\ dir' = dir]_vars

\* add_to_team was run for an existing user on a team that does not exist
C7_Witness ==
    /\ last.op = "LdapUser.add_to_team"
    /\ last.a \in dir.users
    /\ last.b[1] \notin dir.teams
    /\ last.outcome = "NotFound"

----------------------------------------------------------------------------
(* C8 *)

\* C8: add_to_team on an existing team without an owning pair, the team
\* membership call accepted, returns normally having issued that one
\* membership call only.
C8_UnpairedTeamSucceeds ==
    (/\ last.op = "LdapUser.add_to_team"
     /\ last.b[1] \in dir.teams
     /\ get_team_component_units(dir, last.b[1]) = {}
     /\ <<"get_team_component_units", last.b[1]>> \in Range(last.calls))
    => /\ last.outcome = "ok"
       /\ MembershipCalls = << <<"make_user_member_of_team", last.a, last.b[1]>> >>

----------------------------------------------------------------------------
(* C9 *)

\* C9: add_to_team(u, name(F,D)) run when u is already a member of the team,
\* of F and of D returns normally and leaves the memberships unchanged.
C9_MembershipIdempotent ==
    [][\A f \in FranchiseNames, dv \in DivisionNames :
        (/\ <<last'.a, make_team_machine_name(f, dv)>> \in dir.teamMembers
         /\ <<last'.a, f>> \in dir.franchiseMembers
         /\ <<last'.a, dv>> \in dir.divisionMembers
         /\ last'.op = "LdapUser.add_to_team"
         /\ last'.b = <<make_team_machine_name(f, dv)>>)
        => (last'.outcome = "ok" /\ dir' = dir)]_vars

----------------------------------------------------------------------------
(* C10 *)

ConfigKeys == DOMAIN merged.config
LdapKeys == {div_machine_name(merged.ldap[i]) : i \in 1..Len(merged.ldap)}

\* the display names the directory listing gives for key k
LdapDisplayNames(k) ==
    {div_display_name(merged.ldap[i]) :
        i \in {j \in 1..Len(merged.ldap) : div_machine_name(merged.ldap[j]) = k}}

Present(r, field) == field \in DOMAIN r
Populated(r, field) == field \in DOMAIN r /\ r[field].t = "str"

\* what C10 says of every key, except of the display names of a key that is
\* in both sources
MergeFlags ==
    /\ DOMAIN merged.result = ConfigKeys \cup LdapKeys
    /\ \A k \in DOMAIN merged.result :
        LET r == merged.result[k]
        IN  /\ r.exists_in_config = (k \in ConfigKeys)
            /\ r.exists_in_ldap = (k \in LdapKeys)
            /\ k \notin LdapKeys => ~Present(r, "ldap_display_name")
            /\ k \notin ConfigKeys => ~Present(r, "config_display_name")
            /\ k \in ConfigKeys => r.config_display_name = PyStr(merged.config[k])

\* C10 as stated: the keys are the union of the two sources, the two flags
\* say where a key is, a key of one source only lacks the other source's
\* display name, and a key of both sources has both display names populated.
C10_MergeBothPopulated ==
    merged.ran =>
        /\ MergeFlags
        /\ \A k \in ConfigKeys \cap LdapKeys :
            /\ Populated(merged.result[k], "config_display_name")
            /\ Populated(merged.result[k], "ldap_display_name")

\* C10 amended: as stated, except that a key of both sources has its config
\* display name populated and its directory display name present, holding a
\* description the directory listed for the key, or None where the listed
\* entry has no description.
C10_MergeBothPresent ==
    merged.ran =>
        /\ MergeFlags
        /\ \A k \in ConfigKeys \cap LdapKeys :
            /\ Populated(merged.result[k], "config_display_name")
            /\ Present(merged.result[k], "ldap_display_name")
            /\ merged.result[k].ldap_display_name \in LdapDisplayNames(k)
            /\ (\A i \in 1..Len(merged.ldap) :
                    div_machine_name(merged.ldap[i]) = k
                    => Truthy(GetDescription(merged.ldap[i])))
               => Populated(merged.result[k], "ldap_display_name")

\* a merge of a config key that the directory lists too, once with and once
\* without a description, beside a key of the config only
C10_Witness ==
    /\ merged.ran
    /\ ConfigKeys = MachineNames
    /\ Cardinality(LdapKeys) = 1
    /\ \E k \in LdapKeys : Cardinality(LdapDisplayNames(k)) = 2
    /\ \E k \in LdapKeys : merged.result[k].ldap_display_name = PyNone

----------------------------------------------------------------------------
(* C19 *)

CreateTeamCalls == SelectSeq(last.calls, LAMBDA c : c[1] = "create_team")

\* the last handler was a creation whose first call, the creation of the
\* franchise or division itself, the directory rejected
EntityCreationRejected ==
    /\ last.op \in {"LdapFranchise.create", "Division.create"}
    /\ Len(last.calls) = 1
    /\ last.outcome = "AlreadyExists"

\* C19: when the directory rejects the creation of the franchise or of the
\* division itself, the error reaches the caller, no team-creation request
\* is issued and the directory is left as it was.
C19_FailedCreationDerivesNothing ==
    [][(/\ last'.op = "LdapFranchise.create" => last'.a \in dir.franchises
        /\ last'.op = "Division.create" => last'.a \in dir.divisions
        /\ last'.op \in {"LdapFranchise.create", "Division.create"})
       => /\ last'.outcome = "AlreadyExists"
          /\ SelectSeq(last'.calls, LAMBDA c : c[1] = "create_team") = <<>>
          /\ dir' = dir]_vars

\* the creation of a franchise that exists was rejected while a division
\* exists whose team the handler would have derived
C19_Witness ==
    /\ EntityCreationRejected
    /\ last.op = "LdapFranchise.create"
    /\ dir.divisions # {}
    /\ CreateTeamCalls = <<>>

----------------------------------------------------------------------------
(* C15 *)

\* the last handler was LdapUser.create and failed after add_user was accepted
FailedAfterUserCreation ==
    /\ last.op = "LdapUser.create"
    /\ last.outcome # "ok"
    /\ ~(Len(last.calls) = 1 /\ last.outcome = "AlreadyExists")

\* the calls of LdapUser.create come in the order add_user, the initial
\* groups, then "everybody"
ProvisioningOrder ==
    last.op = "LdapUser.create" =>
        /\ last.calls[1] = <<"add_user", last.a>>
        /\ \A i \in 1..Len(last.calls) :
            /\ last.calls[i][1] = "make_uid_member_of"
               => (i > 1 /\ i <= Len(last.b) + 1 /\ last.calls[i][3] = last.b[i - 1])
            /\ last.calls[i][1] = "make_user_member_of_team"
               => (i = Len(last.calls) /\ i > Len(last.b) + 1
                   /\ last.calls[i][3] = EVERYBODY_MACHINE_NAME)
        /\ last.outcome = "ok"
           => last.calls[Len(last.calls)] =
                  <<"make_user_member_of_team", last.a, EVERYBODY_MACHINE_NAME>>

\* the calls of the last handler that the directory accepted: all of them
\* but the last one when the directory's rejection ended the handler
AcceptedCalls ==
    IF RejectedByDirectory THEN SubSeq(last.calls, 1, Len(last.calls) - 1)
    ELSE last.calls

\* the initial-groups loop joined the user to "everybody" before the failure
JoinedEverybodyAsInitialGroup ==
    <<"make_uid_member_of", last.a, EVERYBODY_MACHINE_NAME>> \in Range(AcceptedCalls)

\* C15 as stated, for the failures in which the directory does not find an
\* initial team: the calls come in that order, and a LdapUser.create that
\* failed so after the user was created leaves the user present and not a
\* member of "everybody".
C15_FailureLeavesOutOfEverybody ==
    /\ ProvisioningOrder
    /\ (FailedAfterUserCreation /\ last.outcome = "NotFound")
       => /\ last.a \in dir.users
          /\ <<last.a, EVERYBODY_MACHINE_NAME>> \notin dir.teamMembers

\* C15 amended: the calls come in that order, and a LdapUser.create that
\* failed after the user was created leaves the user present, and a member
\* of "everybody" exactly when "everybody" was one of the initial groups and
\* its membership call was accepted before the failure.
C15_FailureOutOfEverybodyUnlessJoined ==
    /\ ProvisioningOrder
    /\ FailedAfterUserCreation
       => /\ last.a \in dir.users
          /\ <<last.a, EVERYBODY_MACHINE_NAME>> \in dir.teamMembers
             <=> JoinedEverybodyAsInitialGroup

\* LdapUser.create joined the user to "everybody" as an initial group and
\* then failed at a later initial group that the directory does not have
C15_Witness ==
    /\ FailedAfterUserCreation
    /\ last.outcome = "NotFound"
    /\ Len(last.b) = 2
    /\ last.b[1] = EVERYBODY_MACHINE_NAME
    /\ last.b[2] = GHOST_TEAM
    /\ Len(last.calls) = 3
    /\ last.a \in dir.users
    /\ <<last.a, EVERYBODY_MACHINE_NAME>> \in dir.teamMembers

----------------------------------------------------------------------------
(* C13 *)

\* the warnings check_consistency owes for the directory as it is
MissingWarnings ==
    (IF EVERYBODY_MACHINE_NAME \in dir.teams THEN <<>> ELSE <<EverybodyMissing>>)
    \o (IF INTERNATIONAL_MACHINE_NAME \in dir.teams THEN <<>> ELSE <<InternationalMissing>>)

\* C13: check_consistency returns normally whichever of the two required
\* teams is missing, looks both up, and logs one warning per missing team.
C13_BothCheckedIndependently ==
    last.op = "check_consistency" =>
        /\ last.outcome = "ok"
        /\ last.calls = << <<"get_team", EVERYBODY_MACHINE_NAME>>,
                           <<"get_team", INTERNATIONAL_MACHINE_NAME>> >>
        /\ last.b = MissingWarnings

\* check_consistency ran with "everybody" missing and "international" present
C13_Witness ==
    /\ last.op = "check_consistency"
    /\ EVERYBODY_MACHINE_NAME \notin dir.teams
    /\ INTERNATIONAL_MACHINE_NAME \in dir.teams
    /\ last.b = <<EverybodyMissing>>
    /\ Len(last.calls) = 2

----------------------------------------------------------------------------
(* C14 *)

\* C14: merge_divisions and check_consistency leave the directory as it is,
\* and the only gateway calls check_consistency issues are lookups.
C14_ReconcilerReadOnly ==
    [][/\ dir' = dir
       /\ last'.op = "check_consistency"
          => \A i \in 1..Len(last'.calls) : last'.calls[i][1] = "get_team"]_vars

\* both ran and both found something: a missing required team, and a key of
\* the config that the directory does not list
C14_Witness ==
    /\ last.op = "check_consistency"
    /\ last.b # <<>>
    /\ merged.ran
    /\ \E k \in DOMAIN merged.result : ~merged.result[k].exists_in_ldap

----------------------------------------------------------------------------
(* C11 *)

\* only create_folder was run, two or more times
FolderRunsOnly == nxc.folderCalls >= 2 /\ nxc.mainCalls = 0

\* C11 as stated: after two or more create_folder runs and nothing else, the
\* main folder was created once, by the first run, and the "everybody" grant
\* on it was asked for once.
C11_MainFolderOnceByFirst ==
    FolderRunsOnly
    => (nxc.mainCreated = 1 /\ nxc.mainBy = 1 /\ nxc.mainGranted = 1)

\* C11 amended: after two or more create_folder runs and nothing else, the
\* main folder was created at most once, and the "everybody" grant on it was
\* asked for as often, in the same run.  The run that created it is the
\* first one in which the groupware accepted its creation: every run before
\* it had the creation rejected and raised, and no run after it asked for
\* the creation or the grant again.  If no creation was accepted, every run
\* raised and the main folder does not exist.
C11_MainFolderAtMostOnce ==
    FolderRunsOnly =>
        /\ nxc.mainCreated \in {0, 1}
        /\ nxc.mainGranted = nxc.mainCreated
        /\ nxc.mainCreated = 1 =>
               /\ GROUP_FOLDER \in nxc.folders
               /\ nxc.mainBy = nxc.mainRejected + 1
        /\ nxc.mainCreated = 0 =>
               /\ GROUP_FOLDER \notin nxc.folders
               /\ nxc.mainRejected = nxc.folderCalls
               /\ nxc.request.outcome = "KeyError"
        /\ nxc.mainRejected = 0 => (nxc.mainCreated = 1 /\ nxc.mainBy = 1)

\* the first run had the creation of the main folder rejected, the second
\* created it and went on to create its franchise folder
C11_Witness ==
    /\ nxc.folderCalls = 2
    /\ nxc.mainCalls = 0
    /\ nxc.mainRejected = 1
    /\ nxc.mainCreated = 1
    /\ nxc.mainBy = 2
    /\ nxc.mainGranted = 1
    /\ Cardinality(nxc.folders) = 2
    /\ nxc.request.outcome = "ok"
    /\ nxc.request.result

----------------------------------------------------------------------------
(* C12 *)

\* the last create_folder run got as far as asking for its subfolder
SubFolderAsked ==
    /\ nxc.request.op = "create_folder"
    /\ Count(nxc.request.calls, "create_group_folder", SubFolder(nxc.request.a), "") = 1

\* the groupware accepted every one of the three calls on the subfolder
AllThreeAccepted ==
    /\ Len(SelectSeq(nxc.request.calls,
                     LAMBDA c : c[2] = SubFolder(nxc.request.a) /\ c[4] = "ok")) = 3

\* C12: create_folder returns, true exactly when the creation of the
\* subfolder and both grants on it succeeded, false otherwise.
C12_CompositeFailure ==
    SubFolderAsked =>
        /\ nxc.request.outcome = "ok"
        /\ nxc.request.result = AllThreeAccepted

----------------------------------------------------------------------------
(* C20 *)

\* the answer the groupware gave to the last request's call fn, "" if the
\* request did not make that call
Answered(fn) ==
    LET cs == SelectSeq(nxc.request.calls, LAMBDA c : c[1] = fn)
    IN  IF cs = <<>> THEN "" ELSE cs[1][4]

\* the last request created its group
GroupCreated == nxc.request.op = "post" /\ Answered("add_group") = "ok"

\* C20 as stated: a request answered other than 201 leaves behind no group
\* that it created.
C20_NoGroupLeftBehind ==
    (GroupCreated /\ nxc.request.status # 201) => nxc.request.a \notin nxc.groups

\* C20: the answer is 201 exactly when the group was absent and the group
\* and its folder were both created, 400 otherwise; a request that created
\* its group and failed to create the folder asks for the group to be
\* deleted, and the group stays behind only when that deletion is rejected.
C20_GroupDeletedUnlessRejected ==
    nxc.request.op = "post" =>
        /\ nxc.request.status \in {201, 400}
        /\ nxc.request.status = 201 <=>
               /\ ~nxc.request.existed
               /\ Answered("add_group") = "ok"
               /\ Answered("create_group_folder") = "ok"
        /\ nxc.request.status = 201 =>
               /\ nxc.request.a \in nxc.groups
               /\ (nxc.request.type \o "/" \o nxc.request.a) \in nxc.folders
        /\ (GroupCreated /\ nxc.request.status # 201) =>
               /\ Answered("create_group_folder") = "rejected"
               /\ Answered("delete_group") # ""
               /\ nxc.request.a \in nxc.groups <=> Answered("delete_group") = "rejected"

\* a request created its group, failed on the folder and deleted the group
C20_Witness ==
    /\ GroupCreated
    /\ nxc.request.status = 400
    /\ Answered("delete_group") = "ok"
    /\ nxc.request.a \notin nxc.groups

----------------------------------------------------------------------------
(* C17 *)

\* C17: no caller of get_everybody_team racing with the others is left by
\* an exception, and a caller that returned found the team.
C17_BothReturnTeam ==
    procs.run = "get_everybody_team" =>
        \A p \in Callers :
            /\ procs.pc[p] # "raised"
            /\ procs.pc[p] = "returned" => EVERYBODY_MACHINE_NAME \in dir.teams

----------------------------------------------------------------------------
(* C16 *)

\* both concurrent creations are over
BothOver ==
    /\ procs.run = "create"
    /\ procs.fpc \in {"returned", "raised"}
    /\ procs.dpc \in {"returned", "raised"}

\* C16: once the concurrent creations of a franchise and of a division are
\* both over, both have returned and every (franchise, division) pair has its
\* team.
C16_ConcurrentDerivationSafe ==
    BothOver =>
        /\ procs.fpc = "returned"
        /\ procs.dpc = "returned"
        /\ CrossProduct(dir) \subseteq dir.teams

====
